---------------------------- MODULE Spec2Model ----------------------------
(***************************************************************************)
(* Model of the timestamp-overlay decoder (src/decodetimeoverlay.c):       *)
(* main -> parse_header -> load_image -> decode_timestamps ->              *)
(* read_timestamp.                                                         *)
(*                                                                         *)
(* Machine integers are kept at their width.  TLC's own integers are 32    *)
(* bits wide, so an unsigned 32-bit value is a pair <<hi, lo>> of 16-bit   *)
(* limbs and an unsigned 64-bit value is a function from 0..3 to 16-bit    *)
(* limbs, limb k weighing 2^(16k).                                         *)
(*                                                                         *)
(* The input stream is revealed as it is read: every getline draws the     *)
(* next line (or the end of the file) from LineSet, and the pixel payload  *)
(* is drawn when load_image starts.  Memory allocation is taken to         *)
(* succeed.                                                                *)
(***************************************************************************)
EXTENDS Integers, Sequences, FiniteSets, TLC

VARIABLES
  pc,            \* position of the run: which function main is in
  exit_status,   \* -1 while running, then the process's exit status
  state,         \* parse_header: state
  line,          \* parse_header: the line buffer, <<>> when it holds none
  eof,           \* the stream's end-of-file indicator (feof)
  nlines,        \* lines getline has delivered so far
  sscanf_rc,     \* what the last sscanf returned, -2 before any call
  width,         \* main: width
  height,        \* main: height
  depth,         \* main: depth
  payload,       \* the bytes of the stream that follow the header
  image,         \* the buffer load_image returns
  r,             \* load_image: row counter
  c,             \* load_image: column counter
  fpos,          \* bytes of the payload consumed by fgetc
  buf,           \* load_image: the bytes stored through image_ptr
  vert_offset,   \* decode_timestamps: vert_offset
  horiz_offset,  \* decode_timestamps: horiz_offset
  reads,         \* byte offsets from imgdata that read_timestamp sampled
  clocks,        \* the encoded_clocks_t record
  printed        \* the number the final printf shows for the latency

vars == <<pc, exit_status, state, line, eof, nlines, sscanf_rc, width, height,
          depth, payload, image, r, c, fpos, buf, vert_offset, horiz_offset,
          reads, clocks, printed>>

---------------------------------------------------------------------------
(* Program constants *)

WIDTH == 640
HEIGHT == 480
PIXELS_PER_BIT == 8
PIXEL_STRIDE == 3
number_of_clocks == 6
number_of_bits_per_clock == 64

(* Bounds of the model *)

\* Lines the stream can hold before it ends.
MaxLines == 5
\* Largest width and height of the frames load_image is stepped through.
MaxDim == 2
\* How far the frame sizes tried on decode_timestamps lie around the grid size.
Margin == 2

---------------------------------------------------------------------------
(* Unsigned 32-bit arithmetic on <<hi, lo>> limb pairs *)

Limb == 2 ^ 16

\* An int converted to unsigned int (modulo 2^32).
ToU32(i) == <<(i \div Limb) % Limb, i % Limb>>

Zero32 == <<0, 0>>

Add32(a, b) ==
  LET lo == a[2] + b[2]
      hi == a[1] + b[1] + (lo \div Limb)
  IN  <<hi % Limb, lo % Limb>>

Sub32(a, b) ==
  LET lo == a[2] - b[2]
      hi == a[1] - b[1] + (lo \div Limb)
  IN  <<hi % Limb, lo % Limb>>

\* Unsigned division by two.
Half32(a) == <<a[1] \div 2, (a[2] \div 2) + (a[1] % 2) * (Limb \div 2)>>

\* The product of two 16-bit limbs, as <<hi, lo>>, from their 8-bit halves.
Mul16(x, y) ==
  LET mid == (x \div 256) * (y % 256) + (x % 256) * (y \div 256)
      lo == (x % 256) * (y % 256) + (mid % 256) * 256
  IN  <<(x \div 256) * (y \div 256) + (mid \div 256) + (lo \div Limb),
        lo % Limb>>

\* The product modulo 2^32.
Mul32(a, b) ==
  <<(Mul16(a[2], b[2])[1] + Mul16(a[1], b[2])[2] + Mul16(a[2], b[1])[2]) % Limb,
    Mul16(a[2], b[2])[2]>>

\* An unsigned int converted to int (two's complement).
ToInt32(a) ==
  IF a[1] >= Limb \div 2 THEN (a[1] - Limb) * Limb + a[2]
  ELSE a[1] * Limb + a[2]

---------------------------------------------------------------------------
(* Unsigned 64-bit values: limb k of a value weighs 2^(16k) *)

Pow2(n) == 2 ^ n

Zero64 == [k \in 0..3 |-> 0]

U64(l3, l2, l1, l0) == [k \in 0..3 |-> CASE k = 3 -> l3 [] k = 2 -> l2
                                         [] k = 1 -> l1 [] k = 0 -> l0]

\* Bit pos of x, bit 0 the least significant.
Bit(x, pos) == (x[pos \div 16] \div Pow2(pos % 16)) % 2

\* a - b modulo 2^64, limb by limb with a borrow.
Sub64(a, b) ==
  LET d0 == a[0] - b[0]
      d1 == a[1] - b[1] + (d0 \div Limb)
      d2 == a[2] - b[2] + (d1 \div Limb)
      d3 == a[3] - b[3] + (d2 \div Limb)
  IN  U64(d3 % Limb, d2 % Limb, d1 % Limb, d0 % Limb)

\* a < b as unsigned values.
Less64(a, b) ==
  \E k \in 0..3 : a[k] < b[k] /\ \A j \in (k + 1)..3 : a[j] = b[j]

\* What printf's %lu shows of a 64-bit value: its unsigned reading.
FormatLu(x) == [neg |-> FALSE, mag |-> x]

---------------------------------------------------------------------------
(* Header lines.  A line is the sequence of its characters, the newline    *)
(* included, as getline delivers it.                                       *)

LineSet ==
  { <<"P", "6", "\n">>,
    <<"P", "5", "\n">>,
    <<"#", "1", "\n">>,
    <<"6", "4", "0", " ", "4", "8", "0", "\n">>,
    <<"3", "2", "0", " ", "2", "4", "0", "\n">>,
    <<"6", "4", "0", "\n">>,
    <<"x", "\n">>,
    <<"2", "5", "5", "\n">>,
    <<"2", "5", "6", "\n">> }

IsSpace(ch) == ch \in {" ", "\n", "\t"}

IsDigit(ch) == ch \in {"0", "1", "2", "3", "4", "5", "6", "7", "8", "9"}

DigitVal(ch) ==
  CASE ch = "0" -> 0 [] ch = "1" -> 1 [] ch = "2" -> 2 [] ch = "3" -> 3
    [] ch = "4" -> 4 [] ch = "5" -> 5 [] ch = "6" -> 6 [] ch = "7" -> 7
    [] ch = "8" -> 8 [] ch = "9" -> 9

RECURSIVE SkipSpace(_, _)
SkipSpace(s, i) ==
  IF i <= Len(s) /\ IsSpace(s[i]) THEN SkipSpace(s, i + 1) ELSE i

RECURSIVE ScanDigits(_, _, _)
ScanDigits(s, i, acc) ==
  IF i <= Len(s) /\ IsDigit(s[i])
  THEN ScanDigits(s, i + 1, acc * 10 + DigitVal(s[i]))
  ELSE [val |-> acc, next |-> i]

\* One %d conversion at position i: leading white space, a sign, digits.
\* ok is FALSE when no digit is there; end is TRUE when the input ran out.
ScanInt(s, i) ==
  LET j == SkipSpace(s, i)
      neg == j <= Len(s) /\ s[j] = "-"
      k == IF j <= Len(s) /\ s[j] \in {"-", "+"} THEN j + 1 ELSE j
      d == ScanDigits(s, k, 0)
  IN  [ok |-> d.next > k,
       end |-> j > Len(s),
       val |-> IF neg THEN 0 - d.val ELSE d.val,
       next |-> d.next]

\* sscanf(line, "%d %d", width, height): the count it returns and the values
\* left in the two outputs, which keep what they held when not converted.
sscanf(s, w, h) ==
  LET a == ScanInt(s, 1)
      b == ScanInt(s, a.next)
  IN  IF ~a.ok THEN [rc |-> IF a.end THEN -1 ELSE 0, width |-> w, height |-> h]
      ELSE IF ~b.ok THEN [rc |-> 1, width |-> a.val, height |-> h]
      ELSE [rc |-> 2, width |-> a.val, height |-> b.val]

atoi(s) == LET a == ScanInt(s, 1) IN IF a.ok THEN a.val ELSE 0

\* strncmp(line, "P6", 2) == 0
IsMagic(s) == Len(s) >= 2 /\ s[1] = "P" /\ s[2] = "6"

\* *line == '#'
IsComment(s) == Len(s) >= 1 /\ s[1] = "#"

---------------------------------------------------------------------------
(* main and parse_header *)

\* What an automatic variable that was never assigned may hold.
Garbage == {-1, WIDTH, HEIGHT}

NoPayload == [avail |-> 0, content |-> [kind |-> "none"]]
NoImage == [size |-> 0, content |-> [kind |-> "none"]]
NoClocks ==
  [buffer_time |-> Zero64, stream_time |-> Zero64, running_time |-> Zero64,
   clock_time |-> Zero64, render_time |-> Zero64, render_realtime |-> Zero64,
   latency |-> Zero64]
NoPrinted == [neg |-> FALSE, mag |-> Zero64]

Init ==
  /\ pc = "main"
  /\ exit_status = -1
  /\ state = 0
  /\ line = <<>>
  /\ eof = FALSE
  /\ nlines = 0
  /\ sscanf_rc = -2
  /\ width \in Garbage
  /\ height \in Garbage
  /\ depth \in Garbage
  /\ payload = NoPayload
  /\ image = NoImage
  /\ r = 0
  /\ c = 0
  /\ fpos = 0
  /\ buf = <<>>
  /\ vert_offset = 0
  /\ horiz_offset = 0
  /\ reads = <<>>
  /\ clocks = NoClocks
  /\ printed = NoPrinted

\* exit(status)
Exit(status) == pc' = "exit" /\ exit_status' = status

\* main up to the call of parse_header: the argument count and fopen.
Main ==
  /\ pc = "main"
  /\ \E argc \in {1, 2}, opened \in BOOLEAN :
       IF argc = 1 THEN Exit(0)
       ELSE IF ~opened THEN Exit(1)
       ELSE pc' = "parse_header" /\ UNCHANGED exit_status
  /\ UNCHANGED <<state, line, eof, nlines, sscanf_rc, width, height, depth,
                 payload, image, r, c, fpos, buf, vert_offset, horiz_offset,
                 reads, clocks, printed>>

\* The head of parse_header's loop: the test of the state and the release of
\* the previous line; past the loop, the return to main.
ParseTop ==
  /\ pc = "parse_header"
  /\ line' = <<>>
  /\ pc' = IF state # 3 THEN "read_line" ELSE "main_check"
  /\ UNCHANGED <<exit_status, state, eof, nlines, sscanf_rc, width, height,
                 depth, payload, image, r, c, fpos, buf, vert_offset,
                 horiz_offset, reads, clocks, printed>>

\* What getline can deliver: a line, or nothing once the stream has ended.
NextLines == IF eof \/ nlines >= MaxLines THEN {<<>>} ELSE LineSet \cup {<<>>}

\* The comment test with the one of state 2 left out.
SkipsCommentBeforeDimensionsOnly(st, s) == st = 1 /\ IsComment(s)

\* The comment test of states 1 and 2.
SkipsComment(st, s) == st \in {1, 2} /\ IsComment(s)

\* The body of parse_header's loop: read_line and the switch on the state.
ParseLine ==
  /\ pc = "read_line"
  /\ \E got \in NextLines :
       /\ line' = got
       /\ IF got = <<>>
          THEN /\ eof' = TRUE
               /\ pc' = "parse_header"
               /\ UNCHANGED <<exit_status, state, nlines, sscanf_rc, width,
                              height, depth>>
          ELSE /\ nlines' = nlines + 1
               /\ eof' = eof
               /\ IF state = 0
                  THEN /\ state' = IF IsMagic(got) THEN 1 ELSE 0
                       /\ pc' = "parse_header"
                       /\ UNCHANGED <<exit_status, sscanf_rc, width, height,
                                      depth>>
                  ELSE IF SkipsComment(state, got)
                  THEN /\ pc' = "parse_header"
                       /\ UNCHANGED <<exit_status, state, sscanf_rc, width,
                                      height, depth>>
                  ELSE IF state = 1
                  THEN LET s == sscanf(got, width, height)
                       IN  /\ sscanf_rc' = s.rc
                           /\ width' = s.width
                           /\ height' = s.height
                           /\ state' = 2
                           /\ pc' = "parse_header"
                           /\ UNCHANGED <<exit_status, depth>>
                  ELSE /\ depth' = atoi(got)
                       /\ IF depth' > 255
                          THEN Exit(1) /\ UNCHANGED state
                          ELSE /\ state' = 3
                               /\ pc' = "parse_header"
                               /\ UNCHANGED exit_status
                       /\ UNCHANGED <<sscanf_rc, width, height>>
  /\ UNCHANGED <<payload, image, r, c, fpos, buf, vert_offset, horiz_offset,
                 reads, clocks, printed>>

\* The test of the frame size with && in the place of ||.
SizeAcceptedEitherWay(w, h) == w = WIDTH \/ h = HEIGHT

\* main's test of the frame size.
SizeAccepted(w, h) == w = WIDTH /\ h = HEIGHT

MainCheck ==
  /\ pc = "main_check"
  /\ IF SizeAccepted(width, height)
     THEN pc' = "load_image" /\ UNCHANGED exit_status
     ELSE Exit(1)
  /\ UNCHANGED <<state, line, eof, nlines, sscanf_rc, width, height, depth,
                 payload, image, r, c, fpos, buf, vert_offset, horiz_offset,
                 reads, clocks, printed>>

---------------------------------------------------------------------------
(* The frames the overlay generator produces (spec 6 and 8): six bands of  *)
(* 64 blocks of 8x8 pixels, centred in a w x h frame, bit 0 of a band the  *)
(* most significant bit of its clock.                                      *)

Patterns ==
  { U64(0, 0, 0, 0),
    U64(65535, 65535, 65535, 65535),
    U64(43690, 43690, 43690, 43690),
    U64(21845, 21845, 21845, 21845),
    U64(291, 17767, 35243, 52719) }

Max(a, b) == IF a >= b THEN a ELSE b

GridRow0(h) == Max(0, (h - number_of_clocks * PIXELS_PER_BIT) \div 2)
GridCol0(w) == Max(0, (w - number_of_bits_per_clock * PIXELS_PER_BIT) \div 2)

\* A frame's content: "block" paints every byte of every block, "interior"
\* sets only the red byte of each block's pixel at row 4, column 4 and leaves
\* bg elsewhere, "ramp" numbers the bytes.  Slot `slot' carries p, the other
\* slots carry zero.
Contents(w, h) ==
  [kind : {"block"}, w : {w}, h : {h}, slot : 0..5, p : Patterns, bg : {0}]
    \cup
  [kind : {"interior"}, w : {w}, h : {h}, slot : 0..5, p : Patterns,
   bg : {0, 255}]

\* The frames tried on the whole run: those carrying the pattern whose bits
\* all differ in place.
RunContents(w, h) ==
  {cn \in Contents(w, h) : cn.p = U64(291, 17767, 35243, 52719)}

SlotPattern(cn, s) == IF s = cn.slot THEN cn.p ELSE Zero64

\* Byte k of a frame with content cn.
PayloadByte(cn, k) ==
  IF cn.kind = "ramp" THEN k % 256
  ELSE
    LET row == k \div (cn.w * PIXEL_STRIDE)
        col == (k % (cn.w * PIXEL_STRIDE)) \div PIXEL_STRIDE
        ch == k % PIXEL_STRIDE
        gr == row - GridRow0(cn.h)
        gc == col - GridCol0(cn.w)
    IN  IF /\ gr >= 0 /\ gr < number_of_clocks * PIXELS_PER_BIT
           /\ gc >= 0 /\ gc < number_of_bits_per_clock * PIXELS_PER_BIT
        THEN LET on == Bit(SlotPattern(cn, gr \div PIXELS_PER_BIT),
                           63 - (gc \div PIXELS_PER_BIT)) = 1
                 lit == IF on THEN 255 ELSE 0
             IN  IF cn.kind = "block" THEN lit
                 ELSE IF gr % PIXELS_PER_BIT = 4 /\ gc % PIXELS_PER_BIT = 4
                         /\ ch = 0
                 THEN lit ELSE cn.bg
        ELSE cn.bg

---------------------------------------------------------------------------
(* load_image *)

\* malloc's argument, (width * 3) * height.
ImageSize(w, h) == (w * 3) * h

\* Bytes the two loops consume when the stream holds enough.
BytesWanted(w, h) == IF w > 0 /\ h > 0 THEN w * h * 3 ELSE 0

\* load_image as a whole: the loops return once every pixel's three bytes
\* were read, and exit at the first fgetc that meets the end of the stream.
load_image(pl, w, h) ==
  IF pl.avail >= BytesWanted(w, h)
  THEN [ok |-> TRUE, read |-> BytesWanted(w, h),
        image |-> [size |-> ImageSize(w, h), content |-> pl.content]]
  ELSE [ok |-> FALSE, read |-> pl.avail, image |-> NoImage]

\* Byte k of a loaded image.
ImageByte(img, k) == PayloadByte(img.content, k)

\* The payloads a stream can hold behind the header of a w x h frame.
Payloads(w, h) ==
  [avail : {0, ImageSize(w, h) - 1, ImageSize(w, h)},
   content : RunContents(w, h)]

LoadImage ==
  /\ pc = "load_image"
  /\ \E pl \in Payloads(width, height) :
       LET res == load_image(pl, width, height)
       IN  /\ payload' = pl
           /\ fpos' = res.read
           /\ image' = res.image
           /\ IF res.ok
              THEN pc' = "decode_timestamps" /\ UNCHANGED <<exit_status, eof>>
              ELSE Exit(1) /\ eof' = TRUE
  /\ UNCHANGED <<state, line, nlines, sscanf_rc, width, height, depth, r, c,
                 buf, vert_offset, horiz_offset, reads, clocks, printed>>

---------------------------------------------------------------------------
(* decode_timestamps and read_timestamp *)

\* const unsigned int line_stride = width * PIXEL_STRIDE
line_stride(w) == Mul32(ToU32(w), ToU32(PIXEL_STRIDE))

\* vert_offset as computed: unsigned arithmetic, then the conversion to int
\* and the test for a negative value.
VertOffset(w, h) ==
  LET v == ToInt32(Half32(Mul32(
             Sub32(ToU32(h), ToU32(number_of_clocks * PIXELS_PER_BIT)),
             line_stride(w))))
  IN  IF v < 0 THEN 0 ELSE v

\* horiz_offset as computed.
HorizOffset(w) ==
  LET v == ToInt32(Half32(Mul32(
             Sub32(ToU32(w), ToU32(number_of_bits_per_clock * PIXELS_PER_BIT)),
             ToU32(PIXEL_STRIDE))))
  IN  IF v < 0 THEN 0 ELSE v

\* The offset from buf of the byte read_timestamp reads for a bit.
SampleOffset(lineoffset, bit, stride, pxsize) ==
  (lineoffset * PIXELS_PER_BIT + 4) * stride
    + bit * pxsize * PIXELS_PER_BIT + 4

\* Whether imgdata[off] lies in the image, imgdata being image + v + hz.
InBuffer(img, v, hz, off) ==
  /\ v < img.size
  /\ hz < img.size
  /\ off < img.size
  /\ v + hz + off < img.size

\* imgdata[off]; a byte outside the image is whatever memory holds there.
Fetch(img, v, hz, off, wild) ==
  IF InBuffer(img, v, hz, off) THEN ImageByte(img, v + hz + off) ELSE wild

\* The position of the clock bit that sample number `bit' sets.
BitPosition(bit) == 63 - bit

\* What sample number `bit' contributes to limb k of the timestamp:
\* 1 << BitPosition(bit) when the byte read has 0x80 set.
Contribution(bit, k, lineoffset, img, v, hz, stride, wild) ==
  IF /\ BitPosition(bit) \div 16 = k
     /\ (Fetch(img, v, hz,
                SampleOffset(lineoffset, bit, stride, PIXEL_STRIDE),
                wild) \div 128) % 2 = 1
  THEN Pow2(BitPosition(bit) % 16) ELSE 0

Sum8(F(_)) == F(0) + F(1) + F(2) + F(3) + F(4) + F(5) + F(6) + F(7)

\* The loop of read_timestamp over its 64 samples, the bits set in distinct
\* places so that or-ing them in is adding them up.
read_timestamp(lineoffset, img, v, hz, stride, wild) ==
  [k \in 0..3 |->
     Sum8(LAMBDA q : Sum8(LAMBDA t :
       Contribution(8 * q + t, k, lineoffset, img, v, hz, stride, wild)))]

\* The offsets the six calls read, by slot and bit.
Samples(stride) ==
  [s \in 0..5 |-> [b \in 0..63 |-> SampleOffset(s, b, stride, PIXEL_STRIDE)]]

\* What reading outside the image can do: fault, or deliver some byte.
WildReads(img, v, hz, stride) ==
  IF \A s \in 0..5 : \A b \in 0..63 :
       InBuffer(img, v, hz, SampleOffset(s, b, stride, PIXEL_STRIDE))
  THEN {0}
  ELSE {-1, 0, 255}

\* clocks->latency = clocks->clock_time - clocks->render_time
Latency(clock_time, render_time) == Sub64(clock_time, render_time)

\* The record once the last assignment of decode_timestamps is made.
WithLatency(t) ==
  LET cl == CHOOSE x \in {t} : TRUE
  IN  [cl EXCEPT !.latency = Latency(cl.clock_time, cl.render_time)]

DecodeTimestamps ==
  /\ pc = "decode_timestamps"
  /\ \E stride \in {ToInt32(line_stride(width))},
        v \in {VertOffset(width, height)},
        hz \in {HorizOffset(width)} :
       /\ vert_offset' = v
       /\ horiz_offset' = hz
       /\ reads' = Samples(stride)
       /\ \E wild \in WildReads(image, v, hz, stride) :
            IF wild < 0
            THEN /\ pc' = "segv"
                 /\ UNCHANGED <<clocks, printed>>
            ELSE /\ clocks' = WithLatency(
                      [buffer_time |->
                         read_timestamp(0, image, v, hz, stride, wild),
                       stream_time |->
                         read_timestamp(1, image, v, hz, stride, wild),
                       running_time |->
                         read_timestamp(2, image, v, hz, stride, wild),
                       clock_time |->
                         read_timestamp(3, image, v, hz, stride, wild),
                       render_time |->
                         read_timestamp(4, image, v, hz, stride, wild),
                       render_realtime |->
                         read_timestamp(5, image, v, hz, stride, wild),
                       latency |-> Zero64])
                 /\ printed' = FormatLu(clocks'.latency)
                 /\ pc' = "main_return"
  /\ UNCHANGED <<exit_status, state, line, eof, nlines, sscanf_rc, width,
                 height, depth, payload, image, r, c, fpos, buf>>

\* main after decode_timestamps: free(image) and return 0.
MainReturn ==
  /\ pc = "main_return"
  /\ pc' = "done"
  /\ exit_status' = 0
  /\ image' = NoImage
  /\ UNCHANGED <<state, line, eof, nlines, sscanf_rc, width, height, depth,
                 payload, r, c, fpos, buf, vert_offset, horiz_offset, reads,
                 clocks, printed>>

---------------------------------------------------------------------------
(* The run of the program *)

Next ==
  \/ Main
  \/ ParseTop
  \/ ParseLine
  \/ MainCheck
  \/ LoadImage
  \/ DecodeTimestamps
  \/ MainReturn

Spec == Init /\ [][Next]_vars

\* The run is sequential: a step that can be taken is taken.
FairSpec == Spec /\ WF_vars(Next)

---------------------------------------------------------------------------
(* decode_timestamps on its own, over frame sizes around the grid's size   *)
(* (512 x 48) and the size main accepts.                                   *)

DecodeWidths ==
  ((number_of_bits_per_clock * PIXELS_PER_BIT - Margin)
     .. (number_of_bits_per_clock * PIXELS_PER_BIT + Margin)) \cup {WIDTH}

DecodeHeights ==
  ((number_of_clocks * PIXELS_PER_BIT - Margin)
     .. (number_of_clocks * PIXELS_PER_BIT + Margin)) \cup {HEIGHT}

\* The one frame tried at a size main would refuse.
DegenerateContent(w, h) ==
  [kind |-> "block", w |-> w, h |-> h, slot |-> 3,
   p |-> U64(291, 17767, 35243, 52719), bg |-> 0]

InitDecode ==
  /\ pc = "decode_timestamps"
  /\ exit_status = -1
  /\ state = 3
  /\ line = <<>>
  /\ eof = FALSE
  /\ nlines = 3
  /\ sscanf_rc = 2
  /\ width \in DecodeWidths
  /\ height \in DecodeHeights
  /\ depth = 255
  /\ \E cn \in Contents(width, height) :
       /\ SizeAccepted(width, height) \/ cn = DegenerateContent(width, height)
       /\ payload = [avail |-> ImageSize(width, height), content |-> cn]
       /\ image = load_image(payload, width, height).image
  /\ r = 0
  /\ c = 0
  /\ fpos = ImageSize(width, height)
  /\ buf = <<>>
  /\ vert_offset = 0
  /\ horiz_offset = 0
  /\ reads = <<>>
  /\ clocks = NoClocks
  /\ printed = NoPrinted

NextDecode == DecodeTimestamps

SpecDecode == InitDecode /\ [][NextDecode]_vars

---------------------------------------------------------------------------
(* load_image stepped pixel by pixel, on small frames *)

\* An fgetc that raises the end-of-file indicator as it delivers the last byte.
FgetcEager(pl, pos, e) ==
  IF pos < pl.avail
  THEN [byte |-> PayloadByte(pl.content, pos), pos |-> pos + 1,
        eof |-> e \/ pos + 1 = pl.avail]
  ELSE [byte |-> 255, pos |-> pos, eof |-> TRUE]

\* fgetc: the byte delivered (EOF stored in a __uint8_t is 255), the new
\* position and the end-of-file indicator, set by the read that finds
\* nothing left.
Fgetc(pl, pos, e) ==
  IF pos < pl.avail
  THEN [byte |-> PayloadByte(pl.content, pos), pos |-> pos + 1, eof |-> e]
  ELSE [byte |-> 255, pos |-> pos, eof |-> TRUE]

\* One pass of the inner loop: three fgetc, each followed by the feof test,
\* the three stores through image_ptr, and the last feof test.
LoadPixel ==
  /\ pc = "load_loop"
  /\ r < height
  /\ c < width
  /\ LET red == Fgetc(payload, fpos, eof)
         green == Fgetc(payload, red.pos, red.eof)
         blue == Fgetc(payload, green.pos, green.eof)
     IN  IF red.eof
         THEN /\ Exit(1)
              /\ fpos' = red.pos /\ eof' = red.eof
              /\ UNCHANGED <<buf, c>>
         ELSE IF green.eof
         THEN /\ Exit(1)
              /\ fpos' = green.pos /\ eof' = green.eof
              /\ UNCHANGED <<buf, c>>
         ELSE IF blue.eof
         THEN /\ Exit(1)
              /\ fpos' = blue.pos /\ eof' = blue.eof
              /\ UNCHANGED <<buf, c>>
         ELSE /\ buf' = buf \o <<red.byte, green.byte, blue.byte>>
              /\ fpos' = blue.pos /\ eof' = blue.eof
              /\ c' = c + 1
              /\ UNCHANGED <<pc, exit_status>>
  /\ UNCHANGED <<state, line, nlines, sscanf_rc, width, height, depth,
                 payload, image, r, vert_offset, horiz_offset, reads, clocks,
                 printed>>

\* The end of a row: the inner loop is left and the outer one steps.
LoadRowEnd ==
  /\ pc = "load_loop"
  /\ r < height
  /\ c >= width
  /\ r' = r + 1
  /\ c' = 0
  /\ UNCHANGED <<pc, exit_status, state, line, eof, nlines, sscanf_rc, width,
                 height, depth, payload, image, fpos, buf, vert_offset,
                 horiz_offset, reads, clocks, printed>>

\* return image, to main's call of decode_timestamps.
LoadReturn ==
  /\ pc = "load_loop"
  /\ r >= height
  /\ image' = [size |-> ImageSize(width, height), content |-> payload.content]
  /\ pc' = "decode_timestamps"
  /\ UNCHANGED <<exit_status, state, line, eof, nlines, sscanf_rc, width,
                 height, depth, payload, r, c, fpos, buf, vert_offset,
                 horiz_offset, reads, clocks, printed>>

InitLoad ==
  /\ pc = "load_loop"
  /\ exit_status = -1
  /\ state = 3
  /\ line = <<>>
  /\ eof = FALSE
  /\ nlines = 3
  /\ sscanf_rc = 2
  /\ width \in 0..MaxDim
  /\ height \in 0..MaxDim
  /\ depth = 255
  /\ payload \in [avail : 0..(ImageSize(MaxDim, MaxDim) + 1),
                   content : {[kind |-> "ramp"]}]
  /\ image = NoImage
  /\ r = 0
  /\ c = 0
  /\ fpos = 0
  /\ buf = <<>>
  /\ vert_offset = 0
  /\ horiz_offset = 0
  /\ reads = <<>>
  /\ clocks = NoClocks
  /\ printed = NoPrinted

NextLoad == LoadPixel \/ LoadRowEnd \/ LoadReturn

SpecLoad == InitLoad /\ [][NextLoad]_vars

---------------------------------------------------------------------------
(* Properties *)

\* The field of the record that slot s is decoded into.
ClockOfSlot(cl, s) ==
  CASE s = 0 -> cl.buffer_time
    [] s = 1 -> cl.stream_time
    [] s = 2 -> cl.running_time
    [] s = 3 -> cl.clock_time
    [] s = 4 -> cl.render_time
    [] s = 5 -> cl.render_realtime

\* decode_timestamps has run to its end.
Decoded == pc = "main_return"

\* The index of the red byte of the pixel at row 4, column 4 of the block of
\* slot s, bit i, in a 640 x 480 frame.
InteriorRedByte(s, i) ==
  ((GridRow0(HEIGHT) + s * PIXELS_PER_BIT + 4) * WIDTH
     + GridCol0(WIDTH) + i * PIXELS_PER_BIT + 4) * PIXEL_STRIDE

\* The image carries pattern p in slot s the way the round trip builds it.
BuiltFor(img, s, p) ==
  \A i \in 0..63 :
    ImageByte(img, InteriorRedByte(s, i)) = IF Bit(p, 63 - i) = 1 THEN 255 ELSE 0

\* C1: round trip.  When a 640 x 480 buffer holds, for each bit i of a slot
\* s, 0xFF or 0x00 in the red byte of the interior pixel (row 4, column 4) of
\* that block according to bit i of p counted from the most significant bit,
\* decode_timestamps stores exactly p in the field of slot s.
C1_RoundTrip ==
  (Decoded /\ SizeAccepted(width, height)) =>
    \A s \in 0..5 : \A p \in Patterns :
      BuiltFor(image, s, p) => ClockOfSlot(clocks, s) = p

\* C2: for every slot and bit the sampled byte lies at row_byte_offset +
\* bit*8*3 + 4*3 from the base offset: the red byte (index 0 modulo 3 in the
\* row) of the pixel at column 4 of the bit's block, never green or blue.
C2_SampleIsRedOfColumn4 ==
  Decoded =>
    \A s \in 0..5 : \A b \in 0..63 :
      /\ reads[s][b] = (s * PIXELS_PER_BIT + 4) * (width * PIXEL_STRIDE)
                         + b * PIXELS_PER_BIT * PIXEL_STRIDE + 4 * PIXEL_STRIDE
      /\ reads[s][b] % PIXEL_STRIDE = 0

\* The input has ended while parse_header still waits for a header field.
HeaderTruncated ==
  pc \in {"parse_header", "read_line"} /\ eof /\ state # 3

\* The run has ended in the error outcome.
ExitedInError == pc = "exit" /\ exit_status = 1

\* C3: when the input ends before magic, dimensions and max colour value
\* have all been read, parse_header stops and the run ends with exit status
\* 1; it neither loops forever nor returns to main.
C3_TruncatedHeaderEndsInError ==
  [](HeaderTruncated => <>ExitedInError)

\* C4: degenerate geometry.  With height < 48 the vertical byte offset added
\* to the image pointer is 0, and with width < 512 the horizontal byte offset
\* is 0; neither is negative or a wrapped-around large value.
C4_DegenerateOffsetsClamped ==
  pc \in {"main_return", "segv"} =>
    /\ height < number_of_clocks * PIXELS_PER_BIT => vert_offset = 0
    /\ width < number_of_bits_per_clock * PIXELS_PER_BIT => horiz_offset = 0

\* The stream ended with no line beginning with P6.
BadMagic == pc \in {"parse_header", "read_line"} /\ eof /\ state = 0

\* The dimensions line did not hold two decimal integers.
BadDimensions == state >= 2 /\ sscanf_rc # 2

\* The max colour value read is above 255.
BadDepth == state = 2 /\ pc = "exit" /\ atoi(line) > 255

\* C5: malformed header.  With a bad magic token, a dimensions line that is
\* not two decimal integers, or a max colour value above 255, the run ends
\* with exit status 1 and load_image and decode_timestamps are never
\* reached.
C5_MalformedHeaderExits ==
  []((BadMagic \/ BadDimensions \/ BadDepth) =>
       /\ pc \notin {"load_image", "load_loop", "decode_timestamps",
                     "main_return", "done"}
       /\ <>ExitedInError)

\* C6: truncated pixel payload.  load_image returns only after reading
\* exactly width*height*3 bytes, stored in stream order; with fewer bytes in
\* the stream the run ends with exit status 1 and decode_timestamps is not
\* called; no byte is written past index width*height*3 - 1; a stream of
\* exactly width*height*3 bytes is accepted.  The stepped loops agree with
\* load_image taken as a whole.
C6_LoadReadsExactly ==
  LET want == width * height * 3
      whole == load_image(payload, width, height)
  IN  /\ Len(buf) <= want
      /\ \A i \in 1..Len(buf) : buf[i] = PayloadByte(payload.content, i - 1)
      /\ pc = "decode_timestamps" =>
           /\ fpos = want
           /\ Len(buf) = want
           /\ payload.avail >= want
           /\ whole.ok /\ whole.read = fpos /\ whole.image = image
      /\ payload.avail < want => pc \in {"load_loop", "exit"}
      /\ pc = "exit" =>
           /\ exit_status = 1
           /\ payload.avail < want
           /\ ~whole.ok /\ whole.read = fpos

\* A frame of some size was returned from a stream holding exactly its bytes.
C6_Witness ==
  /\ pc = "decode_timestamps"
  /\ width = MaxDim /\ height = MaxDim
  /\ payload.avail = width * height * 3
  /\ Len(buf) = payload.avail

\* C7: comment skipping.  Once the magic line is read, a line beginning with
\* '#' read while the dimensions or the max colour value are expected leaves
\* the state and width, height and depth unchanged, the next line that is no
\* comment is parsed as the expected field, and the state only advances
\* 0 -> 1 -> 2 -> 3 one step at a time.
C7_CommentsSkipped ==
  [][/\ state' \in {state, state + 1}
     /\ state' \in 0..3
     /\ (pc = "read_line" /\ state \in {1, 2} /\ IsComment(line')) =>
          /\ state' = state
          /\ width' = width /\ height' = height /\ depth' = depth
          /\ pc' = "parse_header"
     /\ (pc = "read_line" /\ state = 1 /\ line' # <<>> /\ ~IsComment(line')) =>
          /\ state' = 2
          /\ width' = sscanf(line', width, height).width
          /\ height' = sscanf(line', width, height).height
     /\ (pc = "read_line" /\ state = 2 /\ line' # <<>> /\ ~IsComment(line')) =>
          /\ depth' = atoi(line')
          /\ IF depth' > 255 THEN pc' = "exit" /\ exit_status' = 1
             ELSE state' = 3
    ]_vars

\* A comment was just skipped while the max colour value was expected, the
\* dimensions read before it kept.
C7_Witness ==
  /\ pc = "parse_header"
  /\ state = 2
  /\ IsComment(line)
  /\ sscanf_rc = 2
  /\ width = WIDTH /\ height = HEIGHT

\* C8: base offset.  For width >= 512 and height >= 48 the byte offset added
\* to the image pointer is ((height - 48) div 2) * width * 3 +
\* ((width - 512) div 2) * 3: the first byte of a pixel, a whole number of
\* rows and of pixels in.
C8_BaseOffsetFormula ==
  (/\ pc \in {"main_return", "segv"}
   /\ width >= number_of_bits_per_clock * PIXELS_PER_BIT
   /\ height >= number_of_clocks * PIXELS_PER_BIT) =>
    vert_offset + horiz_offset =
      ((height - number_of_clocks * PIXELS_PER_BIT) \div 2)
          * width * PIXEL_STRIDE
        + ((width - number_of_bits_per_clock * PIXELS_PER_BIT) \div 2)
            * PIXEL_STRIDE

\* The signed reading of a 64-bit value: its sign and magnitude.
FormatLd(x) ==
  IF x[3] >= Limb \div 2 THEN [neg |-> TRUE, mag |-> Sub64(Zero64, x)]
  ELSE [neg |-> FALSE, mag |-> x]

\* C9: the latency is clock_time - render_time (slot 3 minus slot 4) as a
\* signed 64-bit value, negative whenever clock_time < render_time.
C9_LatencySigned ==
  Decoded =>
    /\ clocks.latency = Sub64(clocks.clock_time, clocks.render_time)
    /\ printed = FormatLd(clocks.latency)
    /\ Less64(clocks.clock_time, clocks.render_time) => printed.neg

\* C10: in-bounds sampling on the path main allows.  decode_timestamps is
\* reached only with width 640, height 480 and a fully loaded buffer of
\* 921600 bytes; each of the 6 * 64 bytes read_timestamp reads, slot s into
\* the s-th of buffer_time, stream_time, running_time, clock_time,
\* render_time, render_realtime, has an index in 0..921599.
C10_SamplesInBounds ==
  /\ pc # "segv"
  /\ pc \in {"decode_timestamps", "main_return"} =>
       /\ width = 640 /\ height = 480
       /\ image.size = 921600
       /\ fpos = 921600 /\ payload.avail >= 921600
  /\ Decoded =>
       /\ \A s \in 0..5 : \A b \in 0..63 :
            /\ vert_offset + horiz_offset + reads[s][b] >= 0
            /\ vert_offset + horiz_offset + reads[s][b] <= 921599
       /\ payload.content.kind = "block" =>
            ClockOfSlot(clocks, payload.content.slot) = payload.content.p

\* All 384 samples were read from a loaded 640 x 480 frame, the last of them
\* from the last block of the last slot.
C10_Witness ==
  /\ Decoded
  /\ image.size = 921600
  /\ DOMAIN reads = 0..5
  /\ vert_offset + horiz_offset + reads[5][63] > vert_offset

=============================================================================
